---- MODULE Spec2Model ----
(***************************************************************************)
(* CpuFeatures (asmjit/core/cpuinfo.h): the 256-bit feature bit array, its *)
(* queries and its manipulation, modelled word by word and bit by bit.     *)
(* A BitWord is the set of the positions (0..wordBits-1) of its 1 bits;    *)
(* the C++ operators on it (<<, >>, &, |, ~) are defined on that set.      *)
(***************************************************************************)
EXTENDS Integers, Sequences, FiniteSets

VARIABLES
  wordBits,   \* Support::kBitWordSizeInBits of the build (32 or 64)
  bits,       \* CpuFeatures::_data._bits of the object under test
  abs,        \* the abstract set of ids: those whose last affecting operation added them
  last,       \* the last call made on the object: its arguments, the words before it, its result
  debugBuild, \* TRUE iff the build has ASMJIT_ASSERT enabled (a debug build)
  fault,      \* "none", or how the program left defined behaviour: "assert" or "oob"
  instCall,   \* the last call of a32::Inst::isDefinedId: its argument and its result
  info,       \* the CpuInfo objects, by name: the fields of each
  infoLast,   \* the last call made on a CpuInfo object, and all objects before it
  hostPc,           \* where each thread is in CpuInfo::host()
  hostInitialized,  \* the flag that says the host record has been published
  hostLock,         \* the thread that holds the lock of the host record, or 0
  hostGlobal,       \* the process-wide host record
  hostLocal,        \* each thread's record under detection
  hostOutcome,      \* how the last detection run ended
  detectRuns,       \* how many times the detection has run
  hostReturned,     \* the values the calls of host() have returned so far
  setVia            \* the view through which each bit was last set, if any

featVars == <<wordBits, bits, abs, last, debugBuild, fault>>

instVars == <<instCall>>

infoVars == <<info, infoLast>>

\* What the calls on the CpuFeatures object leave alone.
hostVars ==
  <<hostPc, hostInitialized, hostLock, hostGlobal, hostLocal, hostOutcome,
    detectRuns, hostReturned>>

\* What records the calls made through the x86() and arm() views.
viewVars == <<setVia>>

notFeat == <<instVars, infoVars, hostVars, viewVars>>

\* What the calls on the CpuInfo objects leave alone.
notInfo == <<featVars, instVars, hostVars, viewVars>>

\* What the calls of CpuInfo::host() leave alone.
notHost == <<featVars, instVars, infoVars, viewVars>>

vars == <<featVars, instVars, infoVars, hostVars, viewVars>>

----------------------------------------------------------------------------
(* Program constants. *)

kMaxFeatures == 256

kNone == 0
kAVX == 13
kAVX2 == 14
kBMI2 == 38
kSSE == 110

\* The widths of Support::BitWord a build can choose.
WordBitsChoices == {32, 64}

kNumBitWords == kMaxFeatures \div wordBits

----------------------------------------------------------------------------
(* Bounds of the exploration. *)

\* How many ids of IdPool the calls draw their arguments from.
NumIds == 4
\* The longest argument list of a variadic call.
MaxArgs == 2

\* Ids at the places that matter: the reserved id 0, two ids of one word,
\* the last bit of the last word, an id that is in word 1 of a 32-bit build
\* and in word 0 of a 64-bit build, then ids around the word boundaries.
IdPool == <<kNone, kAVX, kAVX2, 255, kBMI2, kSSE, 63, 64, 31, 32, 127, 128>>

Ids == {IdPool[k] : k \in 1..NumIds}

ArgLists == UNION {[1..n -> Ids] : n \in 1..MaxArgs}

AllIds == 0..(kMaxFeatures - 1)

\* How many ids of IdPool the calls that may break the precondition draw from.
NumAssertIds == 2

\* Ids at and beyond the capacity: the first one past the end, and one whose
\* word index is past the end in either build.
BadIds == {kMaxFeatures, 2 * kMaxFeatures - 1}

AssertIds == {IdPool[k] : k \in 1..NumAssertIds} \cup BadIds

AssertArgLists == UNION {[1..n -> AssertIds] : n \in 1..MaxArgs}

Range(s) == {s[k] : k \in DOMAIN s}

----------------------------------------------------------------------------
(* BitWord arithmetic.  A BitWord is held as the set of the positions of   *)
(* its 1 bits, position 0 being the least significant bit.                 *)

WordBitIdx == 0..(wordBits - 1)

\* BitWord(v) for v in {0, 1}: the conversion of 0, 1, false or true.
BitWord(v) == IF v = 1 THEN {0} ELSE {}

ZeroWord == BitWord(0)

\* w << n, for n < wordBits: bits shifted past the top are lost.
Shl(w, n) == {k + n : k \in {j \in w : j + n < wordBits}}

\* w >> n, for n < wordBits.
Shr(w, n) == {k - n : k \in {j \in w : j >= n}}

BitAnd(a, b) == a \cap b

BitOr(a, b) == a \cup b

BitNot(a) == WordBitIdx \ a

\* bool(w): true iff w is not zero.
ToBool(w) == w # ZeroWord

\* unsigned(b) / BitWord(b) of a bool.
ToUInt(b) == IF b THEN 1 ELSE 0

\* a | b and a & b on the 0/1 values of unsigned(bool).
UIntOr(a, b) == IF a = 1 \/ b = 1 THEN 1 ELSE 0

UIntAnd(a, b) == IF a = 1 /\ b = 1 THEN 1 ELSE 0

WordIdx == 0..(kNumBitWords - 1)

----------------------------------------------------------------------------
(* Support::Array<BitWord, kNumBitWords> helpers used by Data. *)

\* _bits.fill(v)
ArrayFill(v) == [w \in WordIdx |-> v]

RECURSIVE ArrayAggregateOrFrom(_, _, _)
ArrayAggregateOrFrom(arr, i, acc) ==
  IF i >= kNumBitWords THEN acc
  ELSE ArrayAggregateOrFrom(arr, i + 1, BitOr(acc, arr[i]))

\* _bits.aggregate<Support::Or>(0)
ArrayAggregateOr(arr) == ArrayAggregateOrFrom(arr, 0, ZeroWord)

RECURSIVE ArrayEqFrom(_, _, _)
ArrayEqFrom(a, b, i) ==
  IF i >= kNumBitWords THEN TRUE
  ELSE IF a[i] # b[i] THEN FALSE
  ELSE ArrayEqFrom(a, b, i + 1)

\* _bits == other._bits
ArrayEq(a, b) == ArrayEqFrom(a, b, 0)

\* Data _data {} : value-initialised, every word zero.
Fresh == [w \in WordIdx |-> ZeroWord]

----------------------------------------------------------------------------
(* CpuFeatures::Data accessors. *)

\* Mutant: only the first word is looked at.
empty_firstWord(d) == d[0] = ZeroWord

empty(d) == ArrayAggregateOr(d) = ZeroWord

has(d, featureId) ==
  LET idx == featureId \div wordBits
      bit == featureId % wordBits
  IN ToBool(BitAnd(Shr(d[idx], bit), BitWord(1)))

\* Mutant: the fold uses & where the code uses |.
RECURSIVE hasAny_and(_, _)
hasAny_and(d, ids) ==
  IF Len(ids) = 1 THEN has(d, ids[1])
  ELSE UIntAnd(ToUInt(has(d, ids[1])), ToUInt(hasAny_and(d, Tail(ids)))) # 0

RECURSIVE hasAny(_, _)
hasAny(d, ids) ==
  IF Len(ids) = 1 THEN has(d, ids[1])
  ELSE UIntOr(ToUInt(has(d, ids[1])), ToUInt(hasAny(d, Tail(ids)))) # 0

\* Mutant: = where the loop has &=, so only the last word counts.
RECURSIVE hasAllFrom_assign(_, _, _, _)
hasAllFrom_assign(d, other, i, result) ==
  IF i >= kNumBitWords THEN result
  ELSE hasAllFrom_assign(d, other, i + 1, ToUInt(BitAnd(d[i], other[i]) = other[i]))

\* Mutant: the operands of the word test are swapped (a superset test).
RECURSIVE hasAllFrom_swapped(_, _, _, _)
hasAllFrom_swapped(d, other, i, result) ==
  IF i >= kNumBitWords THEN result
  ELSE hasAllFrom_swapped(d, other, i + 1,
                  UIntAnd(result, ToUInt(BitAnd(d[i], other[i]) = d[i])))

RECURSIVE hasAllFrom(_, _, _, _)
hasAllFrom(d, other, i, result) ==
  IF i >= kNumBitWords THEN result
  ELSE hasAllFrom(d, other, i + 1,
                  UIntAnd(result, ToUInt(BitAnd(d[i], other[i]) = other[i])))

\* Mutant: the result starts at 0, so the &= fold can never become true.
hasAll_zeroStart(d, other) == hasAllFrom(d, other, 0, 0) # 0

hasAll(d, other) == hasAllFrom(d, other, 0, 1) # 0

\* Mutant: eq answers the subset test.
eq_hasAll(d, other) == hasAll(d, other)

eq(d, other) == ArrayEq(d, other)

\* Mutant: the count of bits, not of words.
bitWordCount_bits(d) == kMaxFeatures

bitWordCount(d) == kNumBitWords

----------------------------------------------------------------------------
(* CpuFeatures::Data manipulation. *)

reset(d) == ArrayFill(ZeroWord)

\* Mutant: = where the code has |=, so the other bits of the word are lost.
add_assign(d, featureId) ==
  LET idx == featureId \div wordBits
      bit == featureId % wordBits
  IN [d EXCEPT ![idx] = Shl(BitWord(1), bit)]

\* Mutant: the bit position is taken modulo 32 whatever the word width.
add_bit32(d, featureId) ==
  LET idx == featureId \div wordBits
      bit == featureId % 32
  IN [d EXCEPT ![idx] = BitOr(@, Shl(BitWord(1), bit))]

add(d, featureId) ==
  LET idx == featureId \div wordBits
      bit == featureId % wordBits
  IN [d EXCEPT ![idx] = BitOr(d[idx], Shl(BitWord(1), bit))]

RECURSIVE addArgs(_, _)
addArgs(d, ids) ==
  IF Len(ids) = 1 THEN add(d, ids[1])
  ELSE addArgs(add(d, ids[1]), Tail(ids))

\* Mutant: the condition is ignored.
addIf_unconditional(d, condition, featureId) ==
  LET idx == featureId \div wordBits
      bit == featureId % wordBits
  IN [d EXCEPT ![idx] = BitOr(d[idx], Shl(BitWord(1), bit))]

addIf(d, condition, featureId) ==
  LET idx == featureId \div wordBits
      bit == featureId % wordBits
  IN [d EXCEPT ![idx] = BitOr(d[idx], Shl(BitWord(ToUInt(condition)), bit))]

RECURSIVE addIfArgs(_, _, _)
addIfArgs(d, condition, ids) ==
  IF Len(ids) = 1 THEN addIf(d, condition, ids[1])
  ELSE addIfArgs(addIf(d, condition, ids[1]), condition, Tail(ids))

\* Mutant: ^= where the code has &= ~, so the bit is toggled.
remove_toggle(d, featureId) ==
  LET idx == featureId \div wordBits
      bit == featureId % wordBits
      mask == Shl(BitWord(1), bit)
  IN [d EXCEPT ![idx] = (d[idx] \ mask) \cup (mask \ d[idx])]

\* Mutant: the whole word of the id is cleared.
remove_word(d, featureId) ==
  LET idx == featureId \div wordBits
  IN [d EXCEPT ![idx] = ZeroWord]

remove(d, featureId) ==
  LET idx == featureId \div wordBits
      bit == featureId % wordBits
  IN [d EXCEPT ![idx] = BitAnd(d[idx], BitNot(Shl(BitWord(1), bit)))]

RECURSIVE removeArgs(_, _)
removeArgs(d, ids) ==
  IF Len(ids) = 1 THEN remove(d, ids[1])
  ELSE removeArgs(remove(d, ids[1]), Tail(ids))

----------------------------------------------------------------------------
(* Support::BitVectorIterator<BitWord> over the words of a Data.  The      *)
(* iterator keeps a position (ptr: the next word to load, idx: the id of   *)
(* bit 0 of the loaded word) and the not yet reported bits of the loaded   *)
(* word (current).                                                         *)

\* Number of trailing zero bits of a non-zero word: its lowest set bit.
ctz(w) == CHOOSE k \in w : \A j \in w : k <= j

\* while (!bitWord && (idx += wordBits) < end) bitWord = *ptr++;
RECURSIVE BitVectorIterator_skip(_, _, _, _, _)
BitVectorIterator_skip(d, ptr, idx, end, bitWord) ==
  IF bitWord = ZeroWord /\ idx + wordBits < end
  THEN BitVectorIterator_skip(d, ptr + 1, idx + wordBits, end, d[ptr])
  ELSE [ptr |-> ptr,
        idx |-> IF bitWord = ZeroWord THEN idx + wordBits ELSE idx,
        end |-> end, current |-> bitWord]

BitVectorIterator_init(d, numBitWords) ==
  LET end == numBitWords * wordBits
  IN IF 0 < end
     THEN BitVectorIterator_skip(d, 1, 0, end, BitAnd(d[0], BitNot(ZeroWord)))
     ELSE [ptr |-> 0, idx |-> 0, end |-> end, current |-> ZeroWord]

BitVectorIterator_hasNext(it) == it.current # ZeroWord

\* Reports the lowest set bit of the loaded word, clears it, and loads the
\* next non-zero word when the loaded one is used up.
BitVectorIterator_next(d, it) ==
  LET bit == ctz(it.current)
      bitWord == it.current \ {bit}
  IN [n |-> it.idx + bit,
      it |-> BitVectorIterator_skip(d, it.ptr, it.idx, it.end, bitWord)]

\* Mutant: the iterator is given one word too few.
iterator_shortCount(d) == BitVectorIterator_init(d, kNumBitWords - 1)

iterator(d) == BitVectorIterator_init(d, kNumBitWords)

\* for (it = d.iterator(); it.hasNext();) out.append(it.next())
RECURSIVE DrainIterator(_, _, _)
DrainIterator(d, it, out) ==
  IF ~BitVectorIterator_hasNext(it) THEN out
  ELSE LET r == BitVectorIterator_next(d, it)
       IN DrainIterator(d, r.it, Append(out, r.n))

iterate(d) == DrainIterator(d, iterator(d), <<>>)

----------------------------------------------------------------------------
(* a32::Inst (asmjit/arm/a32globals.h): instruction ids.  An InstId is a   *)
(* uint32_t; it is held as two 16-bit limbs, hi * Limb + lo.               *)

Limb == 65536

kIdNone == 0
kIdYield == 446
_kIdCount == 447

U32(hi, lo) == [hi |-> hi, lo |-> lo]

\* a < b on uint32_t.
U32Less(a, b) == a.hi < b.hi \/ (a.hi = b.hi /\ a.lo < b.lo)

\* a < b on the same bits read as int32_t: a set top bit makes a value negative.
Int32Less(a, b) ==
  LET neg(x) == x.hi >= Limb \div 2
  IN IF neg(a) # neg(b) THEN neg(a) ELSE U32Less(a, b)

\* Mutant: only the low 16 bits of the id are compared.
isDefinedId_lowLimb(instId) == instId.lo < _kIdCount

\* Mutant: the id is compared as a signed value.
isDefinedId_signed(instId) == Int32Less(instId, U32(0, _kIdCount))

isDefinedId(instId) == U32Less(instId, U32(0, _kIdCount))

\* How far around 0, _kIdCount and the top of a limb the ids are drawn.
InstSpan == 3

InstLo ==
  (0..InstSpan) \cup ((_kIdCount - InstSpan)..(_kIdCount + InstSpan))
    \cup ((Limb - 1 - InstSpan)..(Limb - 1))

InstHi == (0..InstSpan) \cup {Limb \div 2 - 1, Limb \div 2, Limb - 1}

\* A call of isDefinedId: the id passed, the plain id and the modifier bits
\* the caller made it of, and the result.
InstCall(called, plain, mod, id, res) ==
  [called |-> called, plain |-> plain, mod |-> mod, id |-> id, res |-> res]

InstInit == instCall = InstCall(FALSE, U32(0, 0), U32(0, 0), U32(0, 0), FALSE)

IsDefinedId(instId) ==
  /\ instCall' = InstCall(TRUE, instId, U32(0, 0), instId, isDefinedId(instId))
  /\ UNCHANGED <<featVars, infoVars, hostVars, viewVars>>

NextInst == \E hi \in InstHi, lo \in InstLo : IsDefinedId(U32(hi, lo))

\* a | b on the bits of two naturals.
RECURSIVE OrBits(_, _)
OrBits(a, b) ==
  IF a = 0 THEN b
  ELSE IF b = 0 THEN a
  ELSE (IF a % 2 = 1 \/ b % 2 = 1 THEN 1 ELSE 0) + 2 * OrBits(a \div 2, b \div 2)

U32Or(a, b) == U32(OrBits(a.hi, b.hi), OrBits(a.lo, b.lo))

\* The sizes 2^w a plain-id field within the low limb can have: wide enough
\* for every plain id.
RECURSIVE PowersOfTwoUpTo(_, _)
PowersOfTwoUpTo(p, max) == IF p > max THEN {} ELSE {p} \cup PowersOfTwoUpTo(2 * p, max)

FieldSizes == {F \in PowersOfTwoUpTo(1, Limb) : F >= _kIdCount}

\* How many multiples of the field size the modifier bits of the low limb take.
ModSpan == 3

\* The non-zero modifier values that lie above a plain-id field of size F.
Modifiers(F) ==
  {U32(hi, k * F) : hi \in InstHi, k \in {j \in 0..ModSpan : j * F < Limb}}
    \ {U32(0, 0)}

PlainIds == (0..InstSpan) \cup ((_kIdCount - 1 - InstSpan)..(_kIdCount - 1))

\* The caller takes the result and goes on to its next call.
InstReturn ==
  /\ instCall.called
  /\ instCall' = InstCall(FALSE, U32(0, 0), U32(0, 0), U32(0, 0), FALSE)
  /\ UNCHANGED <<featVars, infoVars, hostVars, viewVars>>

\* isDefinedId(p | m)
IsDefinedIdModified(p, m) ==
  /\ ~instCall.called
  /\ instCall' = InstCall(TRUE, p, m, U32Or(p, m), isDefinedId(U32Or(p, m)))
  /\ UNCHANGED <<featVars, infoVars, hostVars, viewVars>>

NextMod ==
  \/ \E F \in FieldSizes, p \in PlainIds :
       \E m \in Modifiers(F) : IsDefinedIdModified(U32(0, p), m)
  \/ InstReturn

----------------------------------------------------------------------------
(* The state machine: one CpuFeatures object and the calls made on it.     *)

\* Feature sets another object can hold: built from a fresh one by add.
RECURSIVE addSet(_, _)
addSet(d, T) ==
  IF T = {} THEN d
  ELSE LET f == CHOOSE x \in T : TRUE
       IN addSet(add(d, f), T \ {f})

----------------------------------------------------------------------------
(* CpuInfo: a record of the members, in declaration order.  A FixedString  *)
(* is its character buffer, a sequence of character codes.                 *)

kVendorSize == 16
kBrandSize == 64

\* Arch and SubArch are enums whose value 0 is kUnknown.
Arch_kUnknown == 0
Arch_kOther == 1
SubArch_kUnknown == 0
SubArch_kOther == 1

ArchValues == {Arch_kUnknown, Arch_kOther}
SubArchValues == {SubArch_kUnknown, SubArch_kOther}

NumericFields ==
  {"familyId", "modelId", "brandId", "stepping", "processorType",
   "maxLogicalProcessors", "cacheLineSize", "hwThreadCount"}

\* A buffer of n characters that holds the string s and zeros after it.
Pad(s, n) == [k \in 1..n |-> IF k <= Len(s) THEN s[k] ELSE 0]

\* The C string a const char* to the buffer reads: up to the first zero.
CStr(buf) ==
  LET zeros == {k \in DOMAIN buf : buf[k] = 0}
      stop == IF zeros = {} THEN Len(buf) + 1
              ELSE CHOOSE k \in zeros : \A j \in zeros : k <= j
  IN SubSeq(buf, 1, stop - 1)

\* An object all of whose bytes hold the byte pattern g (g = 0: all zero);
\* a bool is true iff its byte is not zero.
Filled(g, feats) ==
  [arch |-> g, subArch |-> g, wasDetected |-> (g # 0), reserved |-> g,
   familyId |-> g, modelId |-> g, brandId |-> g, stepping |-> g,
   processorType |-> g, maxLogicalProcessors |-> g, cacheLineSize |-> g,
   hwThreadCount |-> g,
   vendor |-> [k \in 1..kVendorSize |-> g],
   brand |-> [k \in 1..kBrandSize |-> g],
   features |-> feats]

\* Mutant: the memset stops after _reserved.
CpuInfo_reset_short(ci) ==
  [ci EXCEPT !.arch = 0, !.subArch = 0, !.wasDetected = FALSE, !.reserved = 0]

\* memset(this, 0, sizeof(*this))
CpuInfo_reset(ci) == Filled(0, ArrayFill(ZeroWord))

\* Mutant: the constructor body does not call reset().
CpuInfo_ctor_noReset(mem) == [mem EXCEPT !.features = Fresh]

\* CpuInfo(): the members are default-initialised in the memory mem the object
\* is given (_features by its own constructor), then reset() runs.
CpuInfo_ctor(mem) == CpuInfo_reset([mem EXCEPT !.features = Fresh])

\* CpuInfo(NoInit): only _features is initialised; the other members keep
\* what the memory held: byte pattern g, and wd read as _wasDetected.
CpuInfo_ctorNoInit(g, wd) == [Filled(g, Fresh) EXCEPT !.wasDetected = wd]

\* Mutant: the copy leaves out _features.
CpuInfo_copy_noFeatures(other) ==
  [f \in DOMAIN other |-> IF f = "features" THEN Fresh ELSE other[f]]

\* The defaulted copy constructor and operator=: member by member.
CpuInfo_copy(other) == [f \in DOMAIN other |-> other[f]]

\* Mutant: initArch starts from a reset object.
CpuInfo_initArch_resets(ci, arch, subArch) ==
  [CpuInfo_reset(ci) EXCEPT !.arch = arch, !.subArch = subArch]

CpuInfo_initArch(ci, arch, subArch) == [ci EXCEPT !.arch = arch, !.subArch = subArch]

CpuInfo_addFeature(ci, featureId) == [ci EXCEPT !.features = add(@, featureId)]

CpuInfo_removeFeature(ci, featureId) == [ci EXCEPT !.features = remove(@, featureId)]

\* What the detection behind CpuInfo::host() can leave in the host record: a
\* populated one, or the zeroed one when the CPU could not be detected.
DetectedInfo ==
  [Filled(0, add(Fresh, kAVX)) EXCEPT
     !.arch = Arch_kOther, !.subArch = SubArch_kOther, !.wasDetected = TRUE, !.familyId = 6, !.modelId = 5,
     !.brandId = 4, !.stepping = 3, !.processorType = 2,
     !.maxLogicalProcessors = 8, !.cacheLineSize = 64, !.hwThreadCount = 8,
     !.vendor = Pad(<<71, 101, 110>>, kVendorSize),
     !.brand = Pad(<<67, 80, 85>>, kBrandSize)]

UndetectedInfo == Filled(0, Fresh)

HostValues == {DetectedInfo, UndetectedInfo}

Objs == {"A", "B"}

\* How many ids of IdPool (after kNone) the CpuInfo feature calls draw from.
NumInfoIds == 1

InfoIds == {IdPool[k + 1] : k \in 1..NumInfoIds}

\* The largest byte pattern an uninitialised object is given.
MaxGarbage == 1

InfoCall(op, obj, src, arch, subArch, id, pre) ==
  [op |-> op, obj |-> obj, src |-> src, arch |-> arch, subArch |-> subArch,
   id |-> id, pre |-> pre, res |-> FALSE]

\* A call of an accessor, and what it returned.
InfoRead(op, obj, id, res, pre) ==
  [InfoCall(op, obj, obj, 0, 0, id, pre) EXCEPT !.res = res]

InfoIdle == infoLast.op = "none"

\* Both objects have been made by CpuInfo(), A last.
InfoInit ==
  /\ info = [o \in Objs |-> CpuInfo_ctor(Filled(0, Fresh))]
  /\ infoLast = InfoCall("CpuInfo", "A", "A", 0, 0, 0,
                         [o \in Objs |-> Filled(0, Fresh)])

InfoReturn ==
  /\ ~InfoIdle
  /\ infoLast' = InfoCall("none", "A", "A", 0, 0, 0, info)
  /\ UNCHANGED <<info, notInfo>>

\* A new object is made by CpuInfo() where o was.
Construct(o) ==
  /\ InfoIdle
  /\ info' = [info EXCEPT ![o] = CpuInfo_ctor(@)]
  /\ infoLast' = InfoCall("CpuInfo", o, o, 0, 0, 0, info)
  /\ UNCHANGED notInfo

\* A new object is made by CpuInfo(NoInit) where o was.
ConstructNoInit(o, g, wd) ==
  /\ InfoIdle
  /\ info' = [info EXCEPT ![o] = CpuInfo_ctorNoInit(g, wd)]
  /\ infoLast' = InfoCall("CpuInfoNoInit", o, o, 0, 0, 0, info)
  /\ UNCHANGED notInfo

\* A new object is made by CpuInfo(const CpuInfo&) where o was.
CopyConstruct(o, src) ==
  /\ InfoIdle
  /\ o # src
  /\ info' = [info EXCEPT ![o] = CpuInfo_copy(info[src])]
  /\ infoLast' = InfoCall("copy", o, src, 0, 0, 0, info)
  /\ UNCHANGED notInfo

\* o = src
Assign(o, src) ==
  /\ InfoIdle
  /\ info' = [info EXCEPT ![o] = CpuInfo_copy(info[src])]
  /\ infoLast' = InfoCall("assign", o, src, 0, 0, 0, info)
  /\ UNCHANGED notInfo

\* o = CpuInfo::host(), the host record holding hv.
AssignHost(o, hv) ==
  /\ InfoIdle
  /\ info' = [info EXCEPT ![o] = CpuInfo_copy(hv)]
  /\ infoLast' = InfoCall("assignHost", o, o, 0, 0, 0, info)
  /\ UNCHANGED notInfo

InitArch(o, arch, subArch) ==
  /\ InfoIdle
  /\ info' = [info EXCEPT ![o] = CpuInfo_initArch(@, arch, subArch)]
  /\ infoLast' = InfoCall("initArch", o, o, arch, subArch, 0, info)
  /\ UNCHANGED notInfo

\* initArch(arch): subArch = SubArch::kUnknown by default.
InitArchDefault(o, arch) ==
  /\ InfoIdle
  /\ info' = [info EXCEPT ![o] = CpuInfo_initArch(@, arch, SubArch_kUnknown)]
  /\ infoLast' = InfoCall("initArchDefault", o, o, arch, SubArch_kUnknown, 0, info)
  /\ UNCHANGED notInfo

InfoReset(o) ==
  /\ InfoIdle
  /\ info' = [info EXCEPT ![o] = CpuInfo_reset(@)]
  /\ infoLast' = InfoCall("reset", o, o, 0, 0, 0, info)
  /\ UNCHANGED notInfo

AddFeature(o, featureId) ==
  /\ InfoIdle
  /\ info' = [info EXCEPT ![o] = CpuInfo_addFeature(@, featureId)]
  /\ infoLast' = InfoCall("addFeature", o, o, 0, 0, featureId, info)
  /\ UNCHANGED notInfo

RemoveFeature(o, featureId) ==
  /\ InfoIdle
  /\ info' = [info EXCEPT ![o] = CpuInfo_removeFeature(@, featureId)]
  /\ infoLast' = InfoCall("removeFeature", o, o, 0, 0, featureId, info)
  /\ UNCHANGED notInfo

\* arch(), subArch(), wasDetected(), familyId() .. hwThreadCount(): each
\* returns its member.
ScalarGetters == {"arch", "subArch", "wasDetected"} \cup NumericFields

CpuInfo_get(ci, getter) == ci[getter]

CpuInfo_vendor(ci) == CStr(ci.vendor)

CpuInfo_brand(ci) == CStr(ci.brand)

\* _vendor.eq(s): the strings are equal up to their terminators.
CpuInfo_isVendor(ci, s) == CStr(ci.vendor) = s

CpuInfo_hasFeature(ci, featureId) == has(ci.features, featureId)

\* The strings isVendor is asked about.
VendorStrings == {<<>>, <<71>>, <<71, 101, 110>>}

InfoGet(o, getter) ==
  /\ InfoIdle
  /\ infoLast' = InfoRead(getter, o, 0, CpuInfo_get(info[o], getter), info)
  /\ UNCHANGED <<info, notInfo>>

Vendor(o) ==
  /\ InfoIdle
  /\ infoLast' = InfoRead("vendor", o, 0, CpuInfo_vendor(info[o]), info)
  /\ UNCHANGED <<info, notInfo>>

Brand(o) ==
  /\ InfoIdle
  /\ infoLast' = InfoRead("brand", o, 0, CpuInfo_brand(info[o]), info)
  /\ UNCHANGED <<info, notInfo>>

IsVendor(o, s) ==
  /\ InfoIdle
  /\ infoLast' = InfoRead("isVendor", o, s, CpuInfo_isVendor(info[o], s), info)
  /\ UNCHANGED <<info, notInfo>>

HasFeature(o, featureId) ==
  /\ InfoIdle
  /\ infoLast' = InfoRead("hasFeature", o, featureId,
                          CpuInfo_hasFeature(info[o], featureId), info)
  /\ UNCHANGED <<info, notInfo>>

\* One CpuInfo object, every way of making and changing it.
NextInfo ==
  \/ Construct("A")
  \/ \E g \in 0..MaxGarbage, wd \in BOOLEAN : ConstructNoInit("A", g, wd)
  \/ \E hv \in HostValues : AssignHost("A", hv)
  \/ \E a \in ArchValues, sa \in SubArchValues : InitArch("A", a, sa)
  \/ \E a \in ArchValues : InitArchDefault("A", a)
  \/ InfoReset("A")
  \/ \E f \in InfoIds : AddFeature("A", f)
  \/ \E f \in InfoIds : RemoveFeature("A", f)
  \/ InfoReturn

\* Two initialised CpuInfo objects, copied into each other and changed.
NextCopy ==
  \/ \E o \in Objs : Construct(o)
  \/ \E o, src \in Objs : CopyConstruct(o, src)
  \/ \E o, src \in Objs : Assign(o, src)
  \/ \E o \in Objs, hv \in HostValues : AssignHost(o, hv)
  \/ \E o \in Objs, a \in ArchValues : InitArchDefault(o, a)
  \/ \E o \in Objs : InfoReset(o)
  \/ \E o \in Objs, f \in InfoIds : AddFeature(o, f)
  \/ \E o \in Objs, f \in InfoIds : RemoveFeature(o, f)
  \/ InfoReturn

----------------------------------------------------------------------------
(* CpuInfo::host(): a double-checked, lock-guarded lazy singleton.  Each    *)
(* thread goes check1 -> return on the fast path, or check1 -> lock ->      *)
(* check2 -> detect -> publish -> setFlag -> unlock -> return.              *)

NumThreads == 2

Threads == 1..NumThreads

NoThread == 0

\* Mutant: the first check takes the record as published.
FastPath_always(initialized) == TRUE

\* The first check, made without the lock.
FastPath(initialized) == initialized

\* Mutant: the check under the lock is left out.
MustDetect_always(initialized) == TRUE

\* The second check, made under the lock.
MustDetect(initialized) == ~initialized

\* Mutant: a failed probe has already written the architecture.
Detect_archFirst(local, ok) ==
  IF ok THEN DetectedInfo ELSE [local EXCEPT !.arch = Arch_kOther]

\* The detection collaborator on a default-constructed record: it fills the
\* record, or leaves it as it is when the CPU cannot be determined.
Detect(local, ok) == IF ok THEN DetectedInfo ELSE local

\* The record a detection run that ended as outcome has produced.
HostResult(outcome) == IF outcome = "ok" THEN DetectedInfo ELSE UndetectedInfo

HostInit ==
  /\ hostPc = [t \in Threads |-> "idle"]
  /\ hostInitialized = FALSE
  /\ hostLock = NoThread
  /\ hostGlobal = Filled(0, Fresh)
  /\ hostLocal = [t \in Threads |-> Filled(0, Fresh)]
  /\ hostOutcome = "none"
  /\ detectRuns = 0
  /\ hostReturned = {}

HostGoto(t, pc) == hostPc' = [hostPc EXCEPT ![t] = pc]

HostCall(t) ==
  /\ hostPc[t] = "idle"
  /\ HostGoto(t, "check1")
  /\ UNCHANGED <<hostInitialized, hostLock, hostGlobal, hostLocal, hostOutcome,
                 detectRuns, hostReturned, notHost>>

HostCheck1(t) ==
  /\ hostPc[t] = "check1"
  /\ HostGoto(t, IF FastPath(hostInitialized) THEN "return" ELSE "lock")
  /\ UNCHANGED <<hostInitialized, hostLock, hostGlobal, hostLocal, hostOutcome,
                 detectRuns, hostReturned, notHost>>

HostLock(t) ==
  /\ hostPc[t] = "lock"
  /\ hostLock = NoThread
  /\ hostLock' = t
  /\ HostGoto(t, "check2")
  /\ UNCHANGED <<hostInitialized, hostGlobal, hostLocal, hostOutcome,
                 detectRuns, hostReturned, notHost>>

HostCheck2(t) ==
  /\ hostPc[t] = "check2"
  /\ HostGoto(t, IF MustDetect(hostInitialized) THEN "detect" ELSE "unlock")
  /\ UNCHANGED <<hostInitialized, hostLock, hostGlobal, hostLocal, hostOutcome,
                 detectRuns, hostReturned, notHost>>

\* One run of the detection, into a default-constructed local record.
HostDetect(t, ok) ==
  /\ hostPc[t] = "detect"
  /\ hostLocal' = [hostLocal EXCEPT ![t] = Detect(CpuInfo_ctor(@), ok)]
  /\ hostOutcome' = IF ok THEN "ok" ELSE "failed"
  /\ detectRuns' = detectRuns + 1
  /\ HostGoto(t, "publish")
  /\ UNCHANGED <<hostInitialized, hostLock, hostGlobal, hostReturned, notHost>>

\* The copy into the host record is not atomic: the features come last.
HostPublish(t) ==
  /\ hostPc[t] = "publish"
  /\ hostGlobal' = [hostLocal[t] EXCEPT !.features = hostGlobal.features]
  /\ HostGoto(t, "publishFeatures")
  /\ UNCHANGED <<hostInitialized, hostLock, hostLocal, hostOutcome, detectRuns,
                 hostReturned, notHost>>

HostPublishFeatures(t) ==
  /\ hostPc[t] = "publishFeatures"
  /\ hostGlobal' = [hostGlobal EXCEPT !.features = hostLocal[t].features]
  /\ HostGoto(t, "setFlag")
  /\ UNCHANGED <<hostInitialized, hostLock, hostLocal, hostOutcome, detectRuns,
                 hostReturned, notHost>>

HostSetFlag(t) ==
  /\ hostPc[t] = "setFlag"
  /\ hostInitialized' = TRUE
  /\ HostGoto(t, "unlock")
  /\ UNCHANGED <<hostLock, hostGlobal, hostLocal, hostOutcome, detectRuns,
                 hostReturned, notHost>>

HostUnlock(t) ==
  /\ hostPc[t] = "unlock"
  /\ hostLock' = NoThread
  /\ HostGoto(t, "return")
  /\ UNCHANGED <<hostInitialized, hostGlobal, hostLocal, hostOutcome, detectRuns,
                 hostReturned, notHost>>

\* The caller gets the reference and reads the record behind it.
HostReturn(t) ==
  /\ hostPc[t] = "return"
  /\ hostReturned' = hostReturned \cup {hostGlobal}
  /\ HostGoto(t, "idle")
  /\ UNCHANGED <<hostInitialized, hostLock, hostGlobal, hostLocal, hostOutcome,
                 detectRuns, notHost>>

\* The steps of thread t inside host().
HostStep(t) ==
  \/ HostCheck1(t)
  \/ HostLock(t)
  \/ HostCheck2(t)
  \/ \E ok \in BOOLEAN : HostDetect(t, ok)
  \/ HostPublish(t)
  \/ HostPublishFeatures(t)
  \/ HostSetFlag(t)
  \/ HostUnlock(t)
  \/ HostReturn(t)

NextHost == \E t \in Threads : HostCall(t) \/ HostStep(t)

----------------------------------------------------------------------------
(* CpuFeatures: the calls made on the object.                              *)

Call(op, cond, ids, other, pre, res, out) ==
  [op |-> op, cond |-> cond, ids |-> ids, other |-> other, pre |-> pre,
   res |-> res, out |-> out]

\* No call is in progress: the caller has taken the result of the last one.
\* Mutant: <= where the assertion has <.
AssertOk_inclusive(featureId) == featureId <= kMaxFeatures

\* The condition every single-id has/add/addIf/remove asserts.
AssertOk(featureId) == featureId < kMaxFeatures

\* What a call does with one id before it touches _bits: in a debug build a
\* false ASMJIT_ASSERT ends the program; in a release build the assertion is
\* compiled out and the word index is used as it is, in or out of range.
CheckId(featureId) ==
  IF debugBuild /\ ~AssertOk(featureId) THEN "assert"
  ELSE IF featureId \div wordBits >= kNumBitWords THEN "oob"
  ELSE "none"

\* The position of the first id of a variadic call that faults, 0 if none.
FirstFault(ids) ==
  LET bad == {k \in DOMAIN ids : CheckId(ids[k]) # "none"}
  IN IF bad = {} THEN 0 ELSE CHOOSE k \in bad : \A j \in bad : k <= j

FaultOf(ids) == IF FirstFault(ids) = 0 THEN "none" ELSE CheckId(ids[FirstFault(ids)])

\* The ids a variadic call has applied, one after the other, before it faults.
Applied(ids) == IF FirstFault(ids) = 0 THEN ids ELSE SubSeq(ids, 1, FirstFault(ids) - 1)

\* What a query returns: its value, nothing after a failed assertion, and any
\* value after a read outside the array.
Returned(ids, value) ==
  IF FaultOf(ids) = "none" THEN {value}
  ELSE IF FaultOf(ids) = "oob" THEN BOOLEAN
  ELSE {FALSE}

Running == fault = "none"

NoCall == Call("none", FALSE, <<>>, Fresh, Fresh, FALSE, <<>>)

Idle == last.op = "none"

\* CpuFeatures() : _data {} is value-initialised.
FeatInit ==
  /\ wordBits \in WordBitsChoices
  /\ bits = Fresh
  /\ abs = {}
  /\ last = Call("CpuFeatures", FALSE, <<>>, Fresh, Fresh, FALSE, <<>>)
  /\ debugBuild \in BOOLEAN
  /\ fault = "none"

\* No call has been made through a view yet.
ViewInit == setVia = {}

Init ==
  /\ FeatInit
  /\ InstInit
  /\ InfoInit
  /\ HostInit
  /\ ViewInit

\* The caller takes the result and goes on to its next call.
Return ==
  /\ ~Idle
  /\ Running
  /\ last' = NoCall
  /\ UNCHANGED <<wordBits, bits, abs, debugBuild, fault, notFeat>>

Add(ids) ==
  /\ Idle /\ Running
  /\ bits' = IF Applied(ids) = <<>> THEN bits ELSE addArgs(bits, Applied(ids))
  /\ abs' = abs \cup Range(Applied(ids))
  /\ fault' = FaultOf(ids)
  /\ last' = Call("add", FALSE, ids, Fresh, bits, FALSE, <<>>)
  /\ UNCHANGED <<wordBits, debugBuild, notFeat>>

AddIf(condition, ids) ==
  /\ Idle /\ Running
  /\ bits' = IF Applied(ids) = <<>> THEN bits ELSE addIfArgs(bits, condition, Applied(ids))
  /\ abs' = IF condition THEN abs \cup Range(Applied(ids)) ELSE abs
  /\ fault' = FaultOf(ids)
  /\ last' = Call("addIf", condition, ids, Fresh, bits, FALSE, <<>>)
  /\ UNCHANGED <<wordBits, debugBuild, notFeat>>

Remove(ids) ==
  /\ Idle /\ Running
  /\ bits' = IF Applied(ids) = <<>> THEN bits ELSE removeArgs(bits, Applied(ids))
  /\ abs' = abs \ Range(Applied(ids))
  /\ fault' = FaultOf(ids)
  /\ last' = Call("remove", FALSE, ids, Fresh, bits, FALSE, <<>>)
  /\ UNCHANGED <<wordBits, debugBuild, notFeat>>

\* CpuFeatures(): _data {} value-initialises the words, whatever the memory
\* mem of the new object held.
CpuFeatures_ctor(mem) == Fresh

\* Mutant: the NoInit constructor leaves the memory as it is.
CpuFeatures_ctorNoInit_raw(mem) == mem

\* CpuFeatures(Globals::NoInit_): the body is empty and the default member
\* initialiser _data {} still applies.
CpuFeatures_ctorNoInit(mem) == Fresh

\* The defaulted operator=: the words of other, one by one.
CpuFeatures_assign(d, other) == [w \in DOMAIN other |-> other[w]]

\* A new object is made by CpuFeatures() where the old one was.
ConstructFeatures ==
  /\ Idle /\ Running
  /\ bits' = CpuFeatures_ctor(bits)
  /\ abs' = {}
  /\ last' = Call("CpuFeatures", FALSE, <<>>, Fresh, bits, FALSE, <<>>)
  /\ UNCHANGED <<wordBits, debugBuild, fault, notFeat>>

\* A new object is made by CpuFeatures(NoInit) where the old one was.
ConstructFeaturesNoInit ==
  /\ Idle /\ Running
  /\ bits' = CpuFeatures_ctorNoInit(bits)
  /\ abs' = {}
  /\ last' = Call("CpuFeaturesNoInit", FALSE, <<>>, Fresh, bits, FALSE, <<>>)
  /\ UNCHANGED <<wordBits, debugBuild, fault, notFeat>>

\* *this = other, other holding the ids T.
AssignFeatures(T) ==
  /\ Idle /\ Running
  /\ bits' = CpuFeatures_assign(bits, addSet(Fresh, T))
  /\ abs' = T
  /\ last' = Call("assign", FALSE, <<>>, addSet(Fresh, T), bits, FALSE, <<>>)
  /\ UNCHANGED <<wordBits, debugBuild, fault, notFeat>>

Reset ==
  /\ Idle /\ Running
  /\ bits' = reset(bits)
  /\ abs' = {}
  /\ last' = Call("reset", FALSE, <<>>, Fresh, bits, FALSE, <<>>)
  /\ UNCHANGED <<wordBits, debugBuild, fault, notFeat>>

Has(featureId) ==
  /\ Idle /\ Running
  /\ \E r \in Returned(<<featureId>>, has(bits, featureId)) :
       last' = Call("has", FALSE, <<featureId>>, Fresh, bits, r, <<>>)
  /\ fault' = FaultOf(<<featureId>>)
  /\ UNCHANGED <<wordBits, bits, abs, debugBuild, notFeat>>

HasAny(ids) ==
  /\ Idle /\ Running
  /\ \E r \in Returned(ids, hasAny(bits, ids)) :
       last' = Call("hasAny", FALSE, ids, Fresh, bits, r, <<>>)
  /\ fault' = FaultOf(ids)
  /\ UNCHANGED <<wordBits, bits, abs, debugBuild, notFeat>>

HasAll(other) ==
  /\ Idle /\ Running
  /\ last' = Call("hasAll", FALSE, <<>>, other, bits, hasAll(bits, other), <<>>)
  /\ UNCHANGED <<wordBits, bits, abs, debugBuild, fault, notFeat>>

Empty ==
  /\ Idle /\ Running
  /\ last' = Call("empty", FALSE, <<>>, Fresh, bits, empty(bits), <<>>)
  /\ UNCHANGED <<wordBits, bits, abs, debugBuild, fault, notFeat>>

Eq(other) ==
  /\ Idle /\ Running
  /\ last' = Call("eq", FALSE, <<>>, other, bits, eq(bits, other), <<>>)
  /\ UNCHANGED <<wordBits, bits, abs, debugBuild, fault, notFeat>>

BitWordCount ==
  /\ Idle /\ Running
  /\ last' = Call("bitWordCount", FALSE, <<>>, Fresh, bits, FALSE, <<bitWordCount(bits)>>)
  /\ UNCHANGED <<wordBits, bits, abs, debugBuild, fault, notFeat>>

\* Mutant: the iteration clears the bits it yields.
Iterate_consuming ==
  /\ Idle /\ Running
  /\ last' = Call("iterator", FALSE, <<>>, Fresh, bits, FALSE, iterate(bits))
  /\ bits' = removeArgs(bits, <<kNone>> \o iterate(bits))
  /\ UNCHANGED <<wordBits, abs, debugBuild, fault, notFeat>>

Iterate ==
  /\ Idle /\ Running
  /\ last' = Call("iterator", FALSE, <<>>, Fresh, bits, FALSE, iterate(bits))
  /\ UNCHANGED <<wordBits, bits, abs, debugBuild, fault, notFeat>>

Next ==
  \/ \E ids \in ArgLists : Add(ids)
  \/ \E c \in BOOLEAN, ids \in ArgLists : AddIf(c, ids)
  \/ \E ids \in ArgLists : Remove(ids)
  \/ Reset
  \/ \E f \in Ids : Has(f)
  \/ \E ids \in ArgLists : HasAny(ids)
  \/ \E T \in SUBSET Ids : HasAll(addSet(Fresh, T))
  \/ HasAll(bits)
  \/ Empty
  \/ \E T \in SUBSET Ids : Eq(addSet(Fresh, T))
  \/ Eq(bits)
  \/ Iterate
  \/ Return

Spec == Init /\ [][Next]_vars

\* The same object, called with ids that may break the precondition.
NextAssert ==
  \/ \E ids \in AssertArgLists : Add(ids)
  \/ \E c \in BOOLEAN, ids \in AssertArgLists : AddIf(c, ids)
  \/ \E ids \in AssertArgLists : Remove(ids)
  \/ \E f \in AssertIds : Has(f)
  \/ Return

SpecAssert == Init /\ [][NextAssert]_vars

\* The life of one CpuFeatures: made by either constructor, changed and read
\* by every public operation, one id at a time.
NextLife ==
  \/ ConstructFeatures
  \/ ConstructFeaturesNoInit
  \/ \E T \in SUBSET Ids : AssignFeatures(T)
  \/ \E f \in Ids : Add(<<f>>)
  \/ \E c \in BOOLEAN, f \in Ids : AddIf(c, <<f>>)
  \/ \E f \in Ids : Remove(<<f>>)
  \/ Reset
  \/ \E f \in Ids : Has(f)
  \/ \E ids \in ArgLists : HasAny(ids)
  \/ \E T \in SUBSET Ids : HasAll(addSet(Fresh, T))
  \/ Empty
  \/ \E T \in SUBSET Ids : Eq(addSet(Fresh, T))
  \/ BitWordCount
  \/ Iterate
  \/ Return

SpecLife == Init /\ [][NextLife]_vars

\* A CpuFeatures and a CpuInfo object, filled in a few ways and then read by
\* every accessor; the program makes one call at a time.
NextRead ==
  \/ InfoIdle /\ \E f \in InfoIds : Add(<<f>>)
  \/ InfoIdle /\ Reset
  \/ InfoIdle /\ \E f \in InfoIds \cup {kNone} : Has(f)
  \/ InfoIdle /\ \E ids \in ArgLists : HasAny(ids)
  \/ InfoIdle /\ \E T \in SUBSET InfoIds : HasAll(addSet(Fresh, T))
  \/ InfoIdle /\ HasAll(bits)
  \/ InfoIdle /\ Empty
  \/ InfoIdle /\ \E T \in SUBSET InfoIds : Eq(addSet(Fresh, T))
  \/ InfoIdle /\ Eq(bits)
  \/ InfoIdle /\ BitWordCount
  \/ InfoIdle /\ Iterate
  \/ Return
  \/ Idle /\ \E g \in 0..MaxGarbage, wd \in BOOLEAN : ConstructNoInit("A", g, wd)
  \/ Idle /\ \E hv \in HostValues : AssignHost("A", hv)
  \/ Idle /\ \E getter \in ScalarGetters : InfoGet("A", getter)
  \/ Idle /\ Vendor("A")
  \/ Idle /\ Brand("A")
  \/ Idle /\ \E s \in VendorStrings : IsVendor("A", s)
  \/ Idle /\ \E f \in InfoIds \cup {kNone} : HasFeature("A", f)
  \/ InfoReturn

SpecRead == Init /\ [][NextRead]_vars

SpecInst == Init /\ [][NextInst]_vars

SpecMod == Init /\ [][NextMod]_vars

----------------------------------------------------------------------------
(* The feature id tables: enum CpuFeatures::X86::Id and ARM::Id.  An enum   *)
(* is its list of enumerators, each with or without an initialiser.         *)

Implicit == [explicit |-> FALSE, value |-> 0]

Explicit(v) == [explicit |-> TRUE, value |-> v]

\* The enumerators from kNone to kXSAVES, and from kNone to kXS.
X86_NumEnumerators == 133
ARM_NumEnumerators == 128

\* Mutant: one enumerator of the table is given a value further up.
X86Decl_gap ==
  [k \in 1..X86_NumEnumerators |-> IF k = X86_NumEnumerators THEN Explicit(200) ELSE Implicit]

\* kNone, kMT, .. kXSAVES: no enumerator has an initialiser.
X86Decl == [k \in 1..X86_NumEnumerators |-> Implicit]

\* kNone = 0, kARMv6, .. kXS.
ARMDecl == [k \in 1..ARM_NumEnumerators |-> IF k = 1 THEN Explicit(0) ELSE Implicit]

\* The values the compiler gives the enumerators: the initialiser where there
\* is one, else 0 for the first and one more than the previous for the others.
EnumValues(decl) ==
  [k \in 1..Len(decl) |->
     LET given == {j \in 1..k : decl[j].explicit}
     IN IF given = {} THEN k - 1
        ELSE LET j == CHOOSE x \in given : \A y \in given : y <= x
             IN decl[j].value + (k - j)]

X86Values == EnumValues(X86Decl)
ARMValues == EnumValues(ARMDecl)

\* kMaxValue = kXSAVES and kMaxValue = kXS: the last enumerator of each table.
X86_kMaxValue == X86Values[Len(X86Values)]
ARM_kMaxValue == ARMValues[Len(ARMValues)]

\* static_assert(uint32_t(kMaxValue) < kMaxFeatures), for both tables.
StaticAsserts == X86_kMaxValue < kMaxFeatures /\ ARM_kMaxValue < kMaxFeatures

\* How many enumerators from each end of each table the calls are made with.
NumProbes == 1

Probes(values) ==
  {values[k] : k \in 1..NumProbes} \cup {values[Len(values) + 1 - k] : k \in 1..NumProbes}

NamedIds == Probes(X86Values) \cup Probes(ARMValues)

\* The single-id calls, made with named ids of either table.
NextNamed ==
  \/ \E f \in NamedIds : Add(<<f>>)
  \/ \E f \in NamedIds : Remove(<<f>>)
  \/ \E f \in NamedIds : Has(f)
  \/ Return

SpecNamed == Init /\ [][NextNamed]_vars

----------------------------------------------------------------------------
\* The x86() and arm() views of one CpuFeatures.

\* data<T>() casts the one _data member to T&: X86 and ARM derive from Data
\* and add no member, so a call through either view acts on the same words.
Views == {"x86", "arm"}

Namespaces == {"X86", "ARM"}

\* An enumerator of X86::Id or of ARM::Id.
TypedId(ns, n) == [ns |-> ns, value |-> n]

\* The numeric values that both tables name, among those the calls are made with.
SharedIds == {n \in NamedIds : n \in Range(X86Values) /\ n \in Range(ARMValues)}

TypedIds == {TypedId(ns, n) : ns \in Namespaces, n \in SharedIds}

\* Mutant: the conversion keeps the namespace apart by moving ARM ids up.
ToU32_tagged(featureId) ==
  IF featureId.ns = "ARM" THEN featureId.value + kMaxFeatures \div 2 ELSE featureId.value

\* uint32_t(featureId): the value of the enumerator, its type dropped.
ToU32(featureId) == featureId.value

View_add(d, featureId) == add(d, ToU32(featureId))

View_remove(d, featureId) == remove(d, ToU32(featureId))

View_has(d, featureId) == has(d, ToU32(featureId))

\* The set built from `d` by adding the ids of namespace `ns` with the values S.
RECURSIVE addVia(_, _, _)
addVia(ns, d, S) ==
  IF S = {} THEN d
  ELSE LET n == CHOOSE x \in S : \A y \in S : x <= y
       IN addVia(ns, View_add(d, TypedId(ns, n)), S \ {n})

\* The view through which the bit of value n was last set, "none" if it is clear.
SetVia(n) ==
  IF \E view \in Views : <<n, view>> \in setVia
  THEN CHOOSE view \in Views : <<n, view>> \in setVia
  ELSE "none"

ViewOp(view, method) ==
  CASE view = "x86" /\ method = "add" -> "x86.add"
    [] view = "x86" /\ method = "remove" -> "x86.remove"
    [] view = "x86" /\ method = "has" -> "x86.has"
    [] view = "arm" /\ method = "add" -> "arm.add"
    [] view = "arm" /\ method = "remove" -> "arm.remove"
    [] view = "arm" /\ method = "has" -> "arm.has"

ViewAdd(view, featureId) ==
  /\ Idle /\ Running
  /\ bits' = View_add(bits, featureId)
  /\ abs' = abs \cup {featureId.value}
  /\ fault' = FaultOf(<<ToU32(featureId)>>)
  /\ last' = Call(ViewOp(view, "add"), FALSE, <<ToU32(featureId)>>, Fresh, bits, FALSE, <<>>)
  /\ setVia' = {p \in setVia : p[1] # featureId.value} \cup {<<featureId.value, view>>}
  /\ UNCHANGED <<wordBits, debugBuild, instVars, infoVars, hostVars>>

ViewRemove(view, featureId) ==
  /\ Idle /\ Running
  /\ bits' = View_remove(bits, featureId)
  /\ abs' = abs \ {featureId.value}
  /\ fault' = FaultOf(<<ToU32(featureId)>>)
  /\ last' = Call(ViewOp(view, "remove"), FALSE, <<ToU32(featureId)>>, Fresh, bits, FALSE, <<>>)
  /\ setVia' = {p \in setVia : p[1] # featureId.value}
  /\ UNCHANGED <<wordBits, debugBuild, instVars, infoVars, hostVars>>

ViewHas(view, featureId) ==
  /\ Idle /\ Running
  /\ \E r \in Returned(<<ToU32(featureId)>>, View_has(bits, featureId)) :
       last' = Call(ViewOp(view, "has"), FALSE, <<ToU32(featureId)>>, Fresh, bits, r, <<>>)
  /\ fault' = FaultOf(<<ToU32(featureId)>>)
  /\ UNCHANGED <<wordBits, bits, abs, debugBuild, notFeat>>

\* Calls through both views on one object, and comparisons with sets that
\* were built through either view.
NextView ==
  \/ \E view \in Views, id \in TypedIds : ViewAdd(view, id)
  \/ \E view \in Views, id \in TypedIds : ViewRemove(view, id)
  \/ \E view \in Views, id \in TypedIds : ViewHas(view, id)
  \/ \E ns \in Namespaces, T \in SUBSET SharedIds : Eq(addVia(ns, Fresh, T))
  \/ \E ns \in Namespaces, T \in SUBSET SharedIds : HasAll(addVia(ns, Fresh, T))
  \/ Empty
  \/ Return

SpecView == Init /\ [][NextView]_vars

SpecInfo == Init /\ [][NextInfo]_vars

SpecCopy == Init /\ [][NextCopy]_vars

SpecHost == Init /\ [][NextHost]_vars

\* Every thread inside host() is scheduled again.
SpecHostFair == SpecHost /\ \A t \in Threads : WF_vars(HostStep(t))

----------------------------------------------------------------------------
(* Properties. *)

HasIds(d) == {i \in AllIds : has(d, i)}

\* C1: the bit array agrees with the abstract set of ids: has(i) is true for
\* exactly the ids whose most recent affecting call was add(i) or
\* addIf(true, i); no id is present in a fresh set, every id of an add is
\* present after it, and every id of a remove is absent after it.
C1_BitsAgreeWithAbstractSet ==
  /\ \A i \in AllIds : has(bits, i) <=> i \in abs
  /\ (last.op = "CpuFeatures" => \A i \in AllIds : ~has(bits, i))
  /\ (last.op = "add" => \A k \in DOMAIN last.ids : has(bits, last.ids[k]))
  /\ (last.op = "remove" => \A k \in DOMAIN last.ids : ~has(bits, last.ids[k]))

\* A remove has cleared an id that an earlier add had set, other ids staying.
C1_Witness ==
  /\ last.op = "remove"
  /\ Len(last.ids) = 1
  /\ has(last.pre, last.ids[1])
  /\ ~has(bits, last.ids[1])
  /\ Cardinality(abs) >= 2

\* C2: addIf(false, ids...) leaves every storage word as it was before the
\* call, and addIf(true, ids...) leaves the set exactly as add(ids...) would.
C2_AddIfFrame ==
  last.op = "addIf" =>
    /\ (~last.cond => \A w \in WordIdx : bits[w] = last.pre[w])
    /\ (last.cond => bits = addArgs(last.pre, last.ids))

\* addIf(false, a, b) was called with two ids that add would both have set.
C2_Witness ==
  /\ last.op = "addIf"
  /\ ~last.cond
  /\ Len(last.ids) = 2
  /\ last.ids[1] # last.ids[2]
  /\ ~has(last.pre, last.ids[1])
  /\ ~has(last.pre, last.ids[2])
  /\ ~empty(last.pre)

\* C3: A.hasAll(B) is true iff every id present in B is present in A; with
\* A = {AVX, AVX2}, hasAll({AVX, AVX2}) is true and hasAll({AVX, BMI2}) false.
C3_HasAllIsSubsetTest ==
  /\ (last.op = "hasAll" =>
        (last.res <=> \A i \in AllIds : has(last.other, i) => has(last.pre, i)))
  /\ (abs = {kAVX, kAVX2} =>
        /\ hasAll(bits, addArgs(Fresh, <<kAVX, kAVX2>>))
        /\ ~hasAll(bits, addArgs(Fresh, <<kAVX, kBMI2>>)))

\* hasAll answered true on {AVX, AVX2} for a set that eq tells apart from it.
C3_Witness ==
  /\ last.op = "hasAll"
  /\ abs = {kAVX, kAVX2}
  /\ last.res
  /\ ~empty(last.other)
  /\ ~eq(last.pre, last.other)

\* C4: S.hasAll(E) is true for the empty set E, and S.hasAll(S) is true.
C4_HasAllEmptyAndSelf ==
  last.op = "hasAll" /\ (last.other = Fresh \/ last.other = last.pre) => last.res

\* hasAll was asked of a set with ids in two different words, about itself.
C4_Witness ==
  /\ last.op = "hasAll"
  /\ last.other = last.pre
  /\ has(last.pre, kAVX)
  /\ has(last.pre, 255)

\* C5: hasAny(a1, ..., an) equals has(a1) \/ ... \/ has(an), and hasAny(a)
\* equals has(a).
C5_HasAnyIsOr ==
  last.op = "hasAny" =>
    /\ (last.res <=> \E k \in DOMAIN last.ids : has(last.pre, last.ids[k]))
    /\ (Len(last.ids) = 1 => (last.res <=> has(last.pre, last.ids[1])))

\* hasAny(a, b) answered true with only b present.
C5_Witness ==
  /\ last.op = "hasAny"
  /\ Len(last.ids) = 2
  /\ ~has(last.pre, last.ids[1])
  /\ has(last.pre, last.ids[2])
  /\ last.res

\* C6: the iterator yields exactly the ids present in the set, each once, in
\* strictly ascending order, nothing for an empty set; the set is unchanged
\* by it and a second iterator yields the same sequence.
C6_IteratorYieldsSetAscending ==
  last.op = "iterator" =>
    /\ Range(last.out) = HasIds(last.pre)
    /\ \A j, k \in DOMAIN last.out : j < k => last.out[j] < last.out[k]
    /\ (empty(last.pre) => last.out = <<>>)
    /\ bits = last.pre
    /\ iterate(bits) = last.out

\* The iterator ran over ids of the first and of the last word.
C6_Witness ==
  /\ last.op = "iterator"
  /\ Len(last.out) >= 3
  /\ last.out[1] = kNone
  /\ last.out[Len(last.out)] = 255

\* C7: eq is true iff all storage words are pairwise equal; it is reflexive
\* and symmetric, and two empty sets are equal.
C7_EqIsWordwiseEquality ==
  last.op = "eq" =>
    /\ (last.res <=> \A w \in WordIdx : last.pre[w] = last.other[w])
    /\ (eq(last.other, last.pre) <=> last.res)
    /\ eq(last.pre, last.pre)
    /\ eq(last.other, last.other)
    /\ (empty(last.pre) /\ empty(last.other) => last.res)

\* eq answered false about a set that holds every id of the other one.
C7_Witness ==
  /\ last.op = "eq"
  /\ ~last.res
  /\ ~empty(last.other)
  /\ hasAll(last.pre, last.other)

\* C8: empty() is true iff every storage word is zero, iff no id is present;
\* a set whose added ids were all removed is empty, and so is a reset one.
C8_EmptyIffAllWordsZero ==
  /\ (empty(bits) <=> \A w \in WordIdx : bits[w] = ZeroWord)
  /\ (empty(bits) <=> \A i \in AllIds : ~has(bits, i))
  /\ (abs = {} => empty(bits))
  /\ (last.op = "reset" => empty(bits))
  /\ (last.op = "empty" => (last.res <=> \A i \in AllIds : ~has(last.pre, i)))

\* A remove took the last id out of a set whose only id was in the last word.
C8_Witness ==
  /\ last.op = "remove"
  /\ has(last.pre, 255)
  /\ ~has(last.pre, kNone)
  /\ empty(bits)

\* C9: a second add of the same ids changes nothing, a second remove of the
\* same ids changes nothing, and removing ids that are not present leaves
\* every word as it was.
C9_AddRemoveIdempotent ==
  /\ (last.op = "add" => addArgs(bits, last.ids) = bits)
  /\ (last.op = "remove" => removeArgs(bits, last.ids) = bits)
  /\ (last.op = "remove" /\ (\A k \in DOMAIN last.ids : ~has(last.pre, last.ids[k]))
        => \A w \in WordIdx : bits[w] = last.pre[w])

\* remove(f) was called on a non-empty set that does not hold f.
C9_Witness ==
  /\ last.op = "remove"
  /\ Len(last.ids) = 1
  /\ ~has(last.pre, last.ids[1])
  /\ ~empty(last.pre)

\* C10: feature id 0 (kNone) is never set: has(0) is false in every set
\* reachable by add/addIf/remove/reset calls with ids below kMaxFeatures.
C10_NoneNeverSet == ~has(bits, kNone)

\* What the ids a variadic call got through have done to the words.
ApplyPrefix(op, cond, d, ids) ==
  IF ids = <<>> THEN d
  ELSE CASE op = "add" -> addArgs(d, ids)
         [] op = "addIf" -> addIfArgs(d, cond, ids)
         [] op = "remove" -> removeArgs(d, ids)
         [] OTHER -> d

OutOfRange(ids) == {k \in DOMAIN ids : ids[k] >= kMaxFeatures}

FirstOutOfRange(ids) == CHOOSE k \in OutOfRange(ids) : \A j \in OutOfRange(ids) : k <= j

\* C11 (as claimed): a has/add/addIf/remove call with an id >= kMaxFeatures
\* ends in an assertion failure, accesses no out-of-range word and neither
\* reads nor modifies any storage word; with ids < kMaxFeatures it does not
\* fault.
C11_OutOfRangeAlwaysAsserts ==
  last.op \in {"has", "add", "addIf", "remove"} =>
    IF OutOfRange(last.ids) # {}
    THEN fault = "assert" /\ bits = last.pre
    ELSE fault = "none"

\* C11 (amended): in a build with assertions enabled, the first id >=
\* kMaxFeatures of a has/add/addIf/remove call ends the call in an assertion
\* failure with no out-of-range word accessed, the words holding what the ids
\* listed before it have done (nothing, for a single-id call); a call faults
\* only on such an id; every id < kMaxFeatures passes the assertion and has a
\* word index < kNumBitWords, in every build.
C11_DebugBuildAsserts ==
  /\ (last.op \in {"has", "add", "addIf", "remove"} /\ OutOfRange(last.ids) # {} /\ debugBuild =>
        /\ fault = "assert"
        /\ bits = ApplyPrefix(last.op, last.cond, last.pre,
                              SubSeq(last.ids, 1, FirstOutOfRange(last.ids) - 1))
        /\ (Len(last.ids) = 1 => bits = last.pre))
  /\ (OutOfRange(last.ids) = {} => fault = "none")
  /\ \A i \in AllIds : AssertOk(i) /\ i \div wordBits < kNumBitWords

\* In a debug build add(a, b) with b = kMaxFeatures failed its assertion after
\* a had been added.
C11_Witness ==
  /\ debugBuild
  /\ last.op = "add"
  /\ Len(last.ids) = 2
  /\ last.ids[1] = kAVX
  /\ last.ids[2] = kMaxFeatures
  /\ fault = "assert"
  /\ ~has(last.pre, kAVX)
  /\ has(bits, kAVX)

\* C12: isDefinedId(i) equals i < _kIdCount for every uint32_t i (as
\* _kIdCount < Limb: its high limb is 0 and its low limb is below
\* _kIdCount); isDefinedId(kIdNone) is true, isDefinedId(_kIdCount) is false,
\* and an id with the top bit set (negative as a signed value) is rejected.
C12_IsDefinedIdIsBelowCount ==
  /\ (instCall.called =>
        (instCall.res <=> (instCall.id.hi = 0 /\ instCall.id.lo < _kIdCount)))
  /\ (instCall.called /\ instCall.id = U32(0, kIdNone) => instCall.res)
  /\ (instCall.called /\ instCall.id = U32(0, _kIdCount) => ~instCall.res)
  /\ (instCall.called /\ instCall.id.hi >= Limb \div 2 => ~instCall.res)

\* isDefinedId rejected 0xFFFF0000 + kIdYield, which is -65536 + kIdYield as
\* a signed value.
C12_Witness ==
  /\ instCall.called
  /\ instCall.id = U32(Limb - 1, kIdYield)
  /\ ~instCall.res

----------------------------------------------------------------------------
(* CpuInfo                                                                 *)

\* The zero/empty default: not detected, arch and subArch unknown, every
\* numeric field 0, vendor() and brand() the empty string, features().empty().
IsZeroDefault(ci) ==
  /\ ~ci.wasDetected
  /\ ci.arch = Arch_kUnknown
  /\ ci.subArch = SubArch_kUnknown
  /\ \A f \in NumericFields : ci[f] = 0
  /\ CStr(ci.vendor) = <<>>
  /\ CStr(ci.brand) = <<>>
  /\ empty(ci.features)

\* C14: a default-constructed CpuInfo has wasDetected() false, arch and
\* subArch at their zero values, all eight numeric fields 0, vendor() and
\* brand() empty and features().empty() true, whatever its memory held.
C14_DefaultConstructedIsZero ==
  infoLast.op = "CpuInfo" => IsZeroDefault(info[infoLast.obj])

\* CpuInfo() has just run in memory that held a detected, populated record.
C14_Witness ==
  /\ infoLast.op = "CpuInfo"
  /\ infoLast.pre[infoLast.obj].wasDetected
  /\ infoLast.pre[infoLast.obj].familyId # 0
  /\ ~empty(infoLast.pre[infoLast.obj].features)
  /\ IsZeroDefault(info[infoLast.obj])

\* C15: in every reachable CpuInfo state, after any constructor (NoInit
\* included) and any sequence of initArch, addFeature, removeFeature and
\* reset, an object whose wasDetected() is false holds the zero/empty default
\* in every other field.
C15_UndetectedIsZeroDefault ==
  \A o \in Objs : ~info[o].wasDetected => IsZeroDefault(info[o])

\* C16: initArch(arch, subArch) sets _arch and _subArch to its arguments,
\* subArch being kUnknown when omitted, and leaves every other field of the
\* object (wasDetected, numeric fields, vendor, brand, the feature words) and
\* every other object as it was.
C16_InitArchFrame ==
  infoLast.op \in {"initArch", "initArchDefault"} =>
    LET o == infoLast.obj
        subArch == IF infoLast.op = "initArchDefault" THEN SubArch_kUnknown
                   ELSE infoLast.subArch
    IN /\ info[o].arch = infoLast.arch
       /\ info[o].subArch = subArch
       /\ \A f \in DOMAIN info[o] \ {"arch", "subArch"} :
            info[o][f] = infoLast.pre[o][f]
       /\ \A q \in Objs \ {o} : info[q] = infoLast.pre[q]

\* initArch has just changed both tags of a detected, populated record.
C16_Witness ==
  /\ infoLast.op = "initArch"
  /\ infoLast.pre[infoLast.obj].wasDetected
  /\ ~empty(infoLast.pre[infoLast.obj].features)
  /\ info[infoLast.obj].arch # infoLast.pre[infoLast.obj].arch
  /\ info[infoLast.obj].subArch # infoLast.pre[infoLast.obj].subArch
  /\ info[infoLast.obj].wasDetected

\* C20: after a copy construction or copy assignment the target is field-wise
\* equal to the source, features().eq included, and the source is as it was;
\* a later initArch, addFeature, removeFeature, reset or construction on one
\* object leaves every field and feature word of the other unchanged.
C20_CopyIsEqualAndIndependent ==
  LET o == infoLast.obj
      src == infoLast.src
  IN /\ infoLast.op \in {"copy", "assign"} =>
          /\ \A f \in DOMAIN info[src] : info[o][f] = info[src][f]
          /\ eq(info[o].features, info[src].features)
          /\ info[src] = infoLast.pre[src]
     /\ infoLast.op \notin {"none", "copy", "assign"} =>
          \A q \in Objs \ {o} : \A f \in DOMAIN info[q] : info[q][f] = infoLast.pre[q][f]

\* B has just been copy-constructed from a detected A with features and
\* changed tags, and was different from it before.
C20_Witness ==
  /\ infoLast.op = "copy"
  /\ infoLast.obj = "B"
  /\ infoLast.src = "A"
  /\ infoLast.pre["B"] # infoLast.pre["A"]
  /\ info["A"].wasDetected
  /\ info["A"].arch = Arch_kUnknown
  /\ ~empty(info["A"].features)
  /\ info["B"] = info["A"]

----------------------------------------------------------------------------
(* CpuInfo::host()                                                         *)

\* C17: whatever the interleaving of the threads calling host(), the
\* detection runs at most once, it has run exactly once when the record is
\* published or a call has returned, and a published record is never
\* detected again.
C17_DetectionRunsOnce ==
  /\ detectRuns <= 1
  /\ (hostInitialized \/ hostReturned # {}) => detectRuns = 1
  /\ \A t \in Threads : hostInitialized => hostPc[t] # "detect"

\* A thread that passed the first check before the record was published is
\* making the second check after another thread has published it.
C17_Witness ==
  \E t \in Threads :
    /\ hostPc[t] = "check2"
    /\ hostInitialized
    /\ detectRuns = 1
    /\ hostReturned # {}

\* C18: every call of host() returns the one record the detection run
\* produced, whole: the returned values are all equal, none is a partly
\* written record, and a thread that is about to return sees that record.
C18_AllCallsSeeOneFullRecord ==
  /\ \A v \in hostReturned : hostOutcome # "none" /\ v = HostResult(hostOutcome)
  /\ Cardinality(hostReturned) <= 1
  /\ \A t \in Threads :
       hostPc[t] = "return" => hostOutcome # "none" /\ hostGlobal = HostResult(hostOutcome)

\* A populated record has been returned, and a thread that took the fast
\* path and one that waited for the lock are both about to return.
C18_Witness ==
  /\ hostReturned = {DetectedInfo}
  /\ hostLock = NoThread
  /\ \A t \in Threads : hostPc[t] = "return"

\* C19: when the detection cannot determine the CPU, host() still returns,
\* and what it returns has wasDetected() false, every scalar and string field
\* at its zero/empty default and an empty feature set; every call of host()
\* returns.
C19_FailedDetectionReturnsDefault ==
  /\ [](hostOutcome = "failed" =>
          /\ \A v \in hostReturned : IsZeroDefault(v)
          /\ hostInitialized => IsZeroDefault(hostGlobal))
  /\ \A t \in Threads : (hostPc[t] # "idle") ~> (hostPc[t] = "idle")

\* The detection failed and host() has returned the zeroed record.
C19_Witness ==
  /\ hostOutcome = "failed"
  /\ detectRuns = 1
  /\ hostReturned # {}
  /\ \A v \in hostReturned : ~v.wasDetected /\ IsZeroDefault(v)
  /\ \A t \in Threads : hostPc[t] = "idle"

----------------------------------------------------------------------------
(* Accessors                                                               *)

FeatureAccessors ==
  {"has", "hasAny", "hasAll", "empty", "eq", "bitWordCount", "iterator"}

InfoAccessors == ScalarGetters \cup {"vendor", "isVendor", "brand", "hasFeature"}

\* C21: every accessor is a pure read: after has, hasAny, hasAll, empty, eq,
\* bitWordCount or iterator every storage word of the CpuFeatures is what it
\* was before the call, and after arch .. hwThreadCount, vendor, isVendor,
\* brand or hasFeature every field and feature word of every CpuInfo is what
\* it was; neither kind of call changes the other object.
C21_AccessorsArePureReads ==
  /\ [](last.op \in FeatureAccessors => bits = last.pre /\ InfoIdle)
  /\ [](infoLast.op \in InfoAccessors =>
          /\ \A o \in Objs : \A f \in DOMAIN info[o] : info[o][f] = infoLast.pre[o][f]
          /\ Idle)
  /\ [][(Idle /\ last'.op \in FeatureAccessors) => UNCHANGED <<bits, info>>]_vars
  /\ [][(InfoIdle /\ infoLast'.op \in InfoAccessors) => UNCHANGED <<bits, info>>]_vars

\* hasFeature has just answered true on a detected record, while the
\* CpuFeatures object holds features too.
C21_Witness ==
  /\ infoLast.op = "hasFeature"
  /\ infoLast.res = TRUE
  /\ info["A"].wasDetected
  /\ info["A"] = infoLast.pre["A"]
  /\ ~empty(bits)

----------------------------------------------------------------------------
(* Feature id tables                                                       *)

\* The values of a table are 0, 1, .. in declaration order.
Contiguous(values) == \A k \in DOMAIN values : values[k] = k - 1

\* C22: each feature id table is the contiguous id space 0..kMaxValue with
\* kNone = 0 and kMaxValue < 256: X86 ends at kXSAVES = 132 and ARM at
\* kXS = 127, both static assertions hold, and a has, add or remove called
\* with a named id meets its precondition: no assertion fails and no word
\* outside the array is used.
C22_TablesAreContiguousBelowCapacity ==
  /\ Contiguous(X86Values) /\ Contiguous(ARMValues)
  /\ X86Values[1] = kNone /\ ARMValues[1] = kNone
  /\ X86_kMaxValue = X86_NumEnumerators - 1
  /\ ARM_kMaxValue = ARM_NumEnumerators - 1
  /\ StaticAsserts
  /\ \A f \in Range(X86Values) \cup Range(ARMValues) :
       AssertOk(f) /\ f \div wordBits < kNumBitWords
  /\ fault = "none"

\* add(kXSAVES) has just set its bit in a debug build, kXS being set too.
C22_Witness ==
  /\ last.op = "add"
  /\ last.ids = <<X86_kMaxValue>>
  /\ debugBuild
  /\ has(bits, X86_kMaxValue)
  /\ has(bits, ARM_kMaxValue)
  /\ X86_kMaxValue # ARM_kMaxValue

----------------------------------------------------------------------------
(* Lifecycle of a CpuFeatures                                              *)

\* Every constructor leaves all words zero, and the capacity is fixed:
\* bitWordCount() words of wordBits bits make kMaxFeatures bits, and the
\* storage has exactly those words.
CreatedZeroFixedCapacity ==
  /\ last.op \in {"CpuFeatures", "CpuFeaturesNoInit"} =>
       \A w \in DOMAIN bits : bits[w] = ZeroWord
  /\ bitWordCount(bits) * wordBits = kMaxFeatures
  /\ DOMAIN bits = 0..(bitWordCount(bits) - 1)

\* The storage words are as they were before the last call unless the call
\* was one of ops (or a constructor, which makes a new object).
ChangedOnlyBy(ops) ==
  last.op \notin (ops \cup {"none", "CpuFeatures", "CpuFeaturesNoInit"}) =>
    bits = last.pre

\* C23 as stated: a CpuFeatures is created zero-initialised by both
\* constructors, its capacity is always 256 bits, and only add, remove and
\* addIf alter a storage word.
C23_OnlyAddRemoveAddIfChange ==
  CreatedZeroFixedCapacity /\ ChangedOnlyBy({"add", "addIf", "remove"})

\* C23, amended: a CpuFeatures is created zero-initialised by both
\* constructors, its capacity is always 256 bits, and only add, remove,
\* addIf, reset and copy assignment alter a storage word.
C23_OnlyManipulationChanges ==
  /\ CreatedZeroFixedCapacity
  /\ ChangedOnlyBy({"add", "addIf", "remove", "reset", "assign"})

\* CpuFeatures(NoInit) has just made an empty object where a set with
\* features was.
C23_Witness ==
  /\ last.op = "CpuFeaturesNoInit"
  /\ ~empty(last.pre)
  /\ empty(bits)

----------------------------------------------------------------------------
(* Instruction ids with modifiers                                          *)

\* C24: isDefinedId is false for every id that contains modifiers: for a
\* plain id p < _kIdCount and non-zero modifier bits m above the plain-id
\* field, whatever the size of that field, p | m is not below _kIdCount and
\* isDefinedId(p | m) is false, while isDefinedId(p) is true.
C24_ModifiersAreNotDefined ==
  (instCall.called /\ instCall.mod # U32(0, 0)) =>
    /\ U32Less(instCall.plain, U32(0, _kIdCount))
    /\ isDefinedId(instCall.plain)
    /\ instCall.id = U32Or(instCall.plain, instCall.mod)
    /\ ~U32Less(instCall.id, U32(0, _kIdCount))
    /\ ~instCall.res

\* isDefinedId rejected kIdYield with one modifier bit in the upper limb.
C24_Witness ==
  /\ instCall.called
  /\ instCall.plain = U32(0, kIdYield)
  /\ instCall.mod = U32(1, 0)
  /\ instCall.id = U32(1, kIdYield)
  /\ ~instCall.res

----------------------------------------------------------------------------
(* Word width                                                              *)

\* The 256-bit string a storage array holds, whatever its word width: bit b
\* of word w is bit w * wordBits + b of the string.
FlatBits(d) == UNION {{w * wordBits + b : b \in d[w]} : w \in DOMAIN d}

\* The elements of a set of numbers in ascending order.
RECURSIVE Ascending(_)
Ascending(S) ==
  IF S = {} THEN <<>>
  ELSE LET least == CHOOSE x \in S : \A y \in S : x <= y
       IN <<least>> \o Ascending(S \ {least})

\* C25: the word width is not visible: with 8 words of 32 bits and with 4
\* words of 64 bits alike, the same calls of add, addIf, remove and reset
\* leave the same 256-bit string, the one the calls determine, and has,
\* hasAny, hasAll, empty, eq and the iteration return what that string alone
\* determines, the iteration in ascending order of ids.
C25_WordWidthNotVisible ==
  /\ kNumBitWords * wordBits = kMaxFeatures
  /\ FlatBits(bits) = abs
  /\ \A i \in abs : has(bits, i)
  /\ last.op = "has" => (last.res <=> last.ids[1] \in abs)
  /\ last.op = "hasAny" => (last.res <=> Range(last.ids) \cap abs # {})
  /\ last.op = "hasAll" => (last.res <=> FlatBits(last.other) \subseteq abs)
  /\ last.op = "empty" => (last.res <=> abs = {})
  /\ last.op = "eq" => (last.res <=> FlatBits(last.other) = abs)
  /\ last.op = "iterator" => last.out = Ascending(abs)

\* With 64-bit words, the iteration has run over ids of the first word and
\* of the upper half of the last word.
C25_Witness ==
  /\ wordBits = 64
  /\ last.op = "iterator"
  /\ last.out = <<kAVX, kAVX2, 255>>

----------------------------------------------------------------------------
(* Frame of add, addIf and remove                                          *)

\* The single-id changes a call can make, as functions of the set.
Change(op, d, f) ==
  IF op = "add" THEN add(d, f)
  ELSE IF op = "addIfTrue" THEN addIf(d, TRUE, f)
  ELSE IF op = "addIfFalse" THEN addIf(d, FALSE, f)
  ELSE remove(d, f)

Changes == {"add", "addIfTrue", "addIfFalse", "remove"}

\* C26: add(f), addIf(c, f) and remove(f) change only bit f: has(g) is the
\* same before and after for every id g < 256 other than f; and two changes
\* of distinct ids commute: applied in either order to the set the caller
\* holds between two calls, they give the same storage words.
C26_OnlyBitFChanges ==
  /\ last.op \in {"add", "addIf", "remove"} =>
       \A g \in AllIds \ Range(last.ids) : has(bits, g) <=> has(last.pre, g)
  /\ Idle =>
       \A a, b \in Ids : \A opA, opB \in Changes :
         a # b => Change(opB, Change(opA, bits, a), b) = Change(opA, Change(opB, bits, b), a)

\* remove(kAVX) has cleared bit 13 and left bit 14 of the same word set.
C26_Witness ==
  /\ last.op = "remove"
  /\ last.ids = <<kAVX>>
  /\ has(last.pre, kAVX)
  /\ ~has(bits, kAVX)
  /\ has(bits, kAVX2)
  /\ remove(add(bits, kAVX), kAVX2) = add(remove(bits, kAVX2), kAVX)
  /\ remove(add(bits, kAVX), kAVX2) # bits

----------------------------------------------------------------------------
(* hasAll as an order                                                      *)

\* C27: hasAll is a partial order consistent with eq.  For the set A that
\* hasAll was called on and its argument B: A.hasAll(B) and B.hasAll(A) hold
\* together iff A.eq(B); with any third set C, A.hasAll(B) and B.hasAll(C)
\* imply A.hasAll(C); and when A.hasAll(B) holds it still holds after
\* A.add(f) and after B.remove(f), for every id f.
C27_HasAllIsPartialOrder ==
  last.op = "hasAll" =>
    LET A == last.pre
        B == last.other
    IN /\ last.res = hasAll(A, B)
       /\ (last.res /\ hasAll(B, A)) <=> eq(A, B)
       /\ hasAll(A, A) /\ hasAll(B, B)
       /\ \A T \in SUBSET Ids :
            (last.res /\ hasAll(B, addSet(Fresh, T))) => hasAll(A, addSet(Fresh, T))
       /\ \A T \in SUBSET Ids :
            (hasAll(addSet(Fresh, T), A) /\ last.res) => hasAll(addSet(Fresh, T), B)
       /\ \A f \in Ids : last.res => hasAll(add(A, f), B) /\ hasAll(A, remove(B, f))

\* A.hasAll(B) answered true for a B that is a proper, non-empty part of A,
\* with ids in the first and in the last word.
C27_Witness ==
  /\ last.op = "hasAll"
  /\ last.res
  /\ ~hasAll(last.other, last.pre)
  /\ has(last.other, 255)
  /\ has(last.pre, kAVX)
  /\ ~has(last.other, kAVX)


\* C28: the x86() and arm() views act on the same words and the set keeps no
\* namespace.  A bit set through one view with an id of value n is seen by
\* has through either view with either table's id of value n, and is gone for
\* both once either removes it; eq, hasAll and empty depend only on the
\* numeric positions, whichever view set them.
ViaAny == {n \in SharedIds : SetVia(n) # "none"}

C28_ViewsShareStorage ==
  /\ \A n \in SharedIds : \A ns \in Namespaces :
       View_has(bits, TypedId(ns, n)) <=> SetVia(n) # "none"
  /\ last.op \in {"x86.has", "arm.has"} =>
       last.res = (last.ids[1] \in ViaAny)
  /\ last.op = "eq" => last.res = (FlatBits(last.other) = ViaAny)
  /\ last.op = "hasAll" => last.res = (FlatBits(last.other) \subseteq ViaAny)
  /\ last.op = "empty" => last.res = (ViaAny = {})
  /\ Idle =>
       /\ eq(addVia("X86", Fresh, ViaAny), addVia("ARM", Fresh, ViaAny))
       /\ eq(bits, addVia("X86", Fresh, ViaAny))
       /\ hasAll(bits, addVia("ARM", Fresh, ViaAny))

\* arm().has(ARM::kMaxValue) has returned true for a bit that x86().add set,
\* while the bit of value 0 was set through arm() and is seen through x86().
C28_Witness ==
  /\ last.op = "arm.has" /\ last.res
  /\ last.ids = <<ARM_kMaxValue>>
  /\ SetVia(ARM_kMaxValue) = "x86"
  /\ SetVia(kNone) = "arm"
  /\ View_has(bits, TypedId("X86", kNone))

====
